---- MODULE Spec2Model ----
(***************************************************************************)
(* Model of the Python example clients of the LLM Router Platform:         *)
(*   examples/python/multi_turn_chat.py  (ChatSession)                     *)
(*   examples/python/streaming_chat.py   (key cache, stream consumer)      *)
(* Three specifications share the variables below:                         *)
(*   SpecChat   - one ChatSession driven by chat() and clear_history()     *)
(*   SpecKey    - runs of streaming_chat.main up to the API key            *)
(*   SpecStream - one call of stream_chat_completion, line by line         *)
(* The gateway is the environment: every action draws the HTTP outcome of  *)
(* each request it makes (transport failure, or a status and a body).      *)
(***************************************************************************)
EXTENDS Integers, Sequences, FiniteSets, TLC

VARIABLES
    \* ---- ChatSession (multi_turn_chat.py) ----
    messages,       \* self.messages: the conversation history
    systemPrompt,   \* the system_prompt argument of __init__
    lastCall,       \* how the latest chat()/clear_history() call ended
    tally,          \* calls since construction / since the last clear_history()
    \* ---- network, as the gateway sees it ----
    sent,           \* the requests issued so far, in order
    \* ---- streaming_chat.py: key cache and main ----
    cacheFile,      \* content of .api_key_cache, or NoFile
    pc,             \* position of main
    jwt,            \* jwt_token of main
    apiKey,         \* api_key of main
    keyCall,        \* what the latest get_or_create_api_key call did
    runs,           \* runs of main started so far
    \* ---- streaming_chat.py: stream_chat_completion ----
    gen,            \* state of the generator
    why,            \* how the generator ended
    conn,           \* the HTTP response's connection
    input,          \* the lines the transport will deliver, and how it ends
    pos,            \* lines consumed so far
    yielded,        \* fragments yielded so far
    resp,           \* status of the streaming response, 0 while there is none
    \* ---- the three programs that log in first ----
    prog,           \* which example's main is running
    boot,           \* how the login and the key request of this run ended
    \* ---- chat_with_apikey.py: provider catalog ----
    providers,      \* the provider list fetch_providers returned
    catCall         \* what the latest catalog operation did

chatVars   == <<messages, systemPrompt, lastCall, tally>>
keyVarsButPc == <<cacheFile, jwt, apiKey, keyCall, runs>>
keyVars    == <<cacheFile, pc, jwt, apiKey, keyCall, runs>>
streamVars == <<gen, why, conn, input, pos, yielded, resp>>
bootVars   == <<prog, boot>>
catVars    == <<providers, catCall>>
vars       == <<chatVars, sent, keyVars, streamVars, bootVars, catVars>>

None == "None"
\* Text is a sequence of characters; the empty text stands for "no key".
NoKey == <<>>
\* The key cache file when it does not exist.
NoFile == [exists |-> FALSE, text |-> <<>>]
File(t) == [exists |-> TRUE, text |-> t]

\* ------------------------------------------------------------------ bounds
MaxCalls == 3       \* chat()/clear_history() calls per session
MaxChoices == 2     \* entries of "choices" in a completion response
MaxFileLen == 2     \* characters in the key cache file
MaxKeyLen == 1      \* characters of an API key the gateway issues
MaxRuns == 2        \* runs of main, one after the other, over one cache file
MaxLines == 3       \* lines the transport delivers before it ends
MaxProviders == 2   \* descriptors in the provider list

\* ------------------------------------------------------------------ HTTP
\* Final status codes of a response (requests follows redirects that carry
\* a Location; 300 is a 3xx that is handed to the caller as it is).
Statuses == {200, 300, 401, 403, 404, 500}

Is2xx(s) == s >= 200 /\ s < 300

\* requests.Response.raise_for_status: raises HTTPError for 4xx and 5xx only.
RaiseForStatusLenient(s) == s >= 500 /\ s < 600
RaiseForStatus(s) == s >= 400 /\ s < 600

\* requests.post either raises a transport-level RequestException or
\* returns a response.
TransportErrors == {"ConnectionError", "Timeout"}

\* ------------------------------------------------------------------ ChatSession
\* self.api_key of the session
SessionKey == <<"a">>
UserMessages == {"m1", "m2"}
Contents == {"r1", "r2"}
SystemPrompts == {None, "", "S"}

Msg(r, c) == [role |-> r, content |-> c]

\* Truthiness of a Python str-or-None.
Truthy(s) == s # None /\ s # ""

\* Bodies of a completion response: not JSON, JSON without "choices", or
\* JSON whose "choices" is a list of {"message": {"content": c}}.
ChoiceLists == UNION {[1..n -> Contents] : n \in 0..MaxChoices}
ChatBodies == {[kind |-> "notjson", choices |-> <<>>],
               [kind |-> "nokey", choices |-> <<>>]}
              \cup {[kind |-> "json", choices |-> cs] : cs \in ChoiceLists}

CompletionRequestBearer(key, msgs, stream) ==
    [op |-> "completion", auth |-> "Bearer", cred |-> <<"j">>,
     messages |-> msgs, stream |-> stream]
CompletionRequest(key, msgs, stream) ==
    [op |-> "completion", auth |-> "X-API-Key", cred |-> key,
     messages |-> msgs, stream |-> stream]

\* ChatSession.__init__
InitMessagesAlways(sp) == <<Msg("system", sp)>>
InitMessages(sp) == IF Truthy(sp) THEN <<Msg("system", sp)>> ELSE <<>>

NoCall == [op |-> "none", arg |-> None, outcome |-> None, ret |-> None,
           pre |-> <<>>, status |-> 0, body |-> None]
Tally0 == [ok |-> 0, fail |-> 0, cleared |-> FALSE, calls |-> 0]

\* data["choices"][0]["message"]["content"]
FirstChoiceLast(cs) == cs[Len(cs)]
FirstChoice(cs) == cs[1]

\* The outcome of chat() once the user message is appended and the request
\* sent: "ok", or the exception that leaves the method.
ChatOutcome(err, status, body) ==
    IF err # None THEN err
    ELSE IF RaiseForStatus(status) THEN "HTTPError"
    ELSE IF body.kind = "notjson" THEN "JSONDecodeError"
    ELSE IF body.kind = "nokey" THEN "KeyError"
    ELSE IF Len(body.choices) = 0 THEN "IndexError"
    ELSE "ok"

\* self.messages.append(msg)
AppendMessageFront(ms, msg) == <<msg>> \o ms
AppendMessage(ms, msg) == Append(ms, msg)

\* self.messages as requests.post serialises it: the append of the user
\* message (line 71) comes before the request is built (lines 74-85).
HistoryAtRequestBeforeAppend(ms, m) == ms
HistoryAtRequest(ms, m) == AppendMessage(ms, Msg("user", m))

\* ChatSession.chat(user_message), the whole method, for a session
\* whose api_key is key.
ChatEffect(key, m, err, status, body) ==
    LET withUser == AppendMessage(messages, Msg("user", m))
        outcome == ChatOutcome(err, status, body)
        ret == IF outcome = "ok" THEN FirstChoice(body.choices) ELSE None
    IN  /\ sent' = Append(sent, CompletionRequest(key, HistoryAtRequest(messages, m),
                                                  FALSE))
        /\ messages' = IF outcome = "ok"
                       THEN AppendMessage(withUser, Msg("assistant", ret))
                       ELSE withUser
        /\ lastCall' = [op |-> "chat", arg |-> m, outcome |-> outcome,
                        ret |-> ret, pre |-> messages,
                        status |-> IF err = None THEN status ELSE 0,
                        body |-> IF err = None THEN body ELSE None]
        /\ tally' = [tally EXCEPT
                       !.calls = @ + 1,
                       !.ok = IF outcome = "ok" THEN @ + 1 ELSE @,
                       !.fail = IF outcome = "ok" THEN @ ELSE @ + 1]
        /\ UNCHANGED <<systemPrompt, streamVars, catVars>>

\* A chat() call on a session that a test or a caller drives directly.
Chat(m, err, status, body) ==
    /\ tally.calls < MaxCalls
    /\ ChatEffect(SessionKey, m, err, status, body)
    /\ UNCHANGED <<keyVars, bootVars>>

ChatCall ==
    /\ tally.calls < MaxCalls
    /\ \E m \in UserMessages, err \in TransportErrors \cup {None},
          status \in Statuses, body \in ChatBodies :
        /\ err # None => (status = 200 /\ body.kind = "notjson")
        /\ Chat(m, err, status, body)

\* ChatSession.clear_history()
SystemMessagesNone(ms) == <<>>
SystemMessages(ms) == SelectSeq(ms, LAMBDA x : x.role = "system")

ClearHistory ==
    /\ tally.calls < MaxCalls
    /\ messages' = SystemMessages(messages)
    /\ lastCall' = [NoCall EXCEPT !.op = "clear", !.outcome = "ok", !.pre = messages]
    /\ tally' = [ok |-> 0, fail |-> 0, cleared |-> TRUE, calls |-> tally.calls + 1]
    /\ UNCHANGED <<systemPrompt, sent, keyVars, streamVars, bootVars, catVars>>

NoKeyCall == [run |-> 0, file |-> NoFile, cached |-> NoKey, probe |-> "none", status |-> 0,
              issued |-> FALSE, istatus |-> 0, outcome |-> None, newKey |-> NoKey,
              ret |-> NoKey]
KeyIdle == /\ cacheFile = NoFile /\ pc = "idle" /\ jwt = NoKey /\ apiKey = NoKey
           /\ keyCall = NoKeyCall /\ runs = 0
NoInput == [lines |-> <<>>, end |-> "eof"]
\* No login and no key request made yet in this run.
NoBoot == [login |-> None, loginStatus |-> 0, key |-> None, keyStatus |-> 0]
NoCatCall == [op |-> "none", outcome |-> None, raised |-> None, status |-> 0,
              arg |-> None, provider |-> None, model |-> None]
BootIdle == prog = "none" /\ boot = NoBoot
CatIdle == providers = <<>> /\ catCall = NoCatCall
StreamIdle == /\ gen = "idle" /\ why = None /\ conn = "none" /\ input = NoInput /\ pos = 0
              /\ yielded = <<>> /\ resp = 0

InitChat ==
    /\ systemPrompt \in SystemPrompts
    /\ messages = InitMessages(systemPrompt)
    /\ lastCall = NoCall
    /\ tally = Tally0
    /\ sent = <<>>
    /\ KeyIdle
    /\ StreamIdle
    /\ BootIdle
    /\ CatIdle

NextChat == ChatCall \/ ClearHistory

SpecChat == InitChat /\ [][NextChat]_vars

\* ------------------------------------------------------------------ key cache
\* " " stands for any whitespace character.
KeyChars == {"a", "b"}
Chars == KeyChars \cup {" "}
Whitespace == {" "}

SeqsUpTo(S, n) == UNION {[1..k -> S] : k \in 0..n}

\* What .api_key_cache may hold when a run starts: nothing, or any text.
FileContents == {NoFile} \cup {File(t) : t \in SeqsUpTo(Chars, MaxFileLen)}

\* The raw keys the gateway issues: non-empty tokens that can be sent as an
\* HTTP header value (no surrounding whitespace).
Keys == SeqsUpTo(KeyChars, MaxKeyLen) \ {<<>>}
Tokens == {<<"j">>}

\* str.strip()
RECURSIVE LStrip(_)
LStrip(t) == IF t # <<>> /\ Head(t) \in Whitespace THEN LStrip(Tail(t)) ELSE t
RECURSIVE RStrip(_)
RStrip(t) == IF t # <<>> /\ t[Len(t)] \in Whitespace
             THEN RStrip(SubSeq(t, 1, Len(t) - 1)) ELSE t
Strip(t) == RStrip(LStrip(t))

\* The cached key get_or_create_api_key reads: f.read().strip(), which is
\* empty (falsy) for a blank file; NoKey too when there is no file.
LoadCachedKey(file) == IF file.exists THEN Strip(file.text) ELSE NoKey

\* with open(cache_file, "w") as f: f.write(new_key)
CacheWriteSkipped(file, key) == file
CacheWrite(file, key) == File(key)

\* "If we get 401/403, key is invalid; any other response means key is valid"
KeyInvalidAnyError(status) == status >= 400
KeyInvalid(status) == status \in {401, 403}

Request(op, auth, cred) ==
    [op |-> op, auth |-> auth, cred |-> cred, messages |-> <<>>, stream |-> FALSE]
ProbeRequest(key) ==
    [op |-> "completion", auth |-> "X-API-Key", cred |-> key,
     messages |-> <<Msg("user", "test")>>, stream |-> FALSE]

\* Exceptions main catches (requests.exceptions.RequestException); any
\* other exception ends the program with a traceback.
RequestExceptions == {"HTTPError", "ConnectionError", "Timeout", "JSONDecodeError"}

\* Bodies of a login or key-issuance response: not JSON, JSON without the
\* field, or JSON carrying the value.
ValueBodies(values) == {[kind |-> "notjson", value |-> NoKey],
                        [kind |-> "nokey", value |-> NoKey]}
                       \cup {[kind |-> "json", value |-> v] : v \in values}

\* response.raise_for_status(); return response.json()[field]
FieldOutcomeUnchecked(err, status, body) ==
    IF err # None THEN err
    ELSE IF body.kind = "notjson" THEN "JSONDecodeError"
    ELSE IF body.kind = "nokey" THEN "KeyError"
    ELSE "ok"
FieldOutcome(err, status, body) ==
    IF err # None THEN err
    ELSE IF RaiseForStatus(status) THEN "HTTPError"
    ELSE IF body.kind = "notjson" THEN "JSONDecodeError"
    ELSE IF body.kind = "nokey" THEN "KeyError"
    ELSE "ok"

\* Where main goes when a step raises exc: the except clause of the step
\* returns from main for a RequestException; anything else is a traceback.
AfterExceptionRetry(exc) == "login"
AfterException(exc) == IF exc \in RequestExceptions THEN "failed" ELSE "crashed"

\* main, step 1: get_auth_token() and its except clause.
Login ==
    /\ pc = "login"
    /\ \E err \in TransportErrors \cup {None}, status \in Statuses,
          body \in ValueBodies(Tokens) :
        LET outcome == FieldOutcome(err, status, body) IN
        /\ err # None => (status = 200 /\ body.kind = "notjson")
        /\ sent' = Append(sent, Request("login", "none", NoKey))
        /\ jwt' = IF outcome = "ok" THEN body.value ELSE NoKey
        /\ pc' = IF outcome = "ok" THEN "getkey" ELSE AfterException(outcome)
        /\ boot' = [boot EXCEPT !.login = outcome,
                                !.loginStatus = IF err = None THEN status ELSE 0]
        /\ UNCHANGED <<cacheFile, apiKey, keyCall, runs, chatVars, streamVars, prog, catVars>>

\* get_or_create_api_key(jwt_token): what the probe of the cached key
\* decides. "none": no probe was made; "valid": return the cached key;
\* "invalid" and "unreachable": go on to create a new key.
ProbeVerdict(cached, perr, pstatus) ==
    IF cached = NoKey THEN "none"
    ELSE IF perr # None THEN "unreachable"
    ELSE IF KeyInvalid(pstatus) THEN "invalid"
    ELSE "valid"

\* The requests get_or_create_api_key sends, in order: the probe of a cached
\* key, and the key creation unless the probe found the key valid.
KeyRequestsEager(verdict, cached, token) ==
    (IF verdict = "none" THEN <<>> ELSE <<ProbeRequest(cached)>>)
        \o <<Request("issue", "Bearer", token)>>
KeyRequests(verdict, cached, token) ==
    (IF verdict = "none" THEN <<>> ELSE <<ProbeRequest(cached)>>)
        \o (IF verdict = "valid" THEN <<>> ELSE <<Request("issue", "Bearer", token)>>)

\* The cache file after the key-creation request: the write (lines 79-80)
\* comes after raise_for_status() and response.json()["key"], so it is
\* reached only when neither raised.
CacheAfterIssueEager(file, issue, key) == CacheWrite(file, key)
CacheAfterIssue(file, issue, key) ==
    IF issue = "ok" THEN CacheWrite(file, key) ELSE file

\* main, step 2: get_or_create_api_key(jwt_token), the whole function, and
\* its except clause.
GetOrCreateApiKey(perr, pstatus, ierr, istatus, ibody) ==
    LET cached == LoadCachedKey(cacheFile)
        verdict == ProbeVerdict(cached, perr, pstatus)
        issue == FieldOutcome(ierr, istatus, ibody)
    IN
    /\ pc = "getkey"
    /\ sent' = sent \o KeyRequests(verdict, cached, jwt)
    /\ IF verdict = "valid"
       THEN /\ apiKey' = cached
            /\ pc' = "ready"
            /\ cacheFile' = cacheFile
            /\ keyCall' = [run |-> runs, file |-> cacheFile, cached |-> cached,
                           probe |-> "response", status |-> pstatus,
                           issued |-> FALSE, istatus |-> 0, outcome |-> "cached",
                           newKey |-> NoKey, ret |-> cached]
       ELSE /\ apiKey' = IF issue = "ok" THEN ibody.value ELSE NoKey
            /\ pc' = IF issue = "ok" THEN "ready" ELSE AfterException(issue)
            /\ cacheFile' = CacheAfterIssue(cacheFile, issue, ibody.value)
            /\ keyCall' = [run |-> runs, file |-> cacheFile, cached |-> cached,
                           probe |-> IF verdict = "none" THEN "none"
                                     ELSE IF verdict = "unreachable" THEN perr
                                     ELSE "response",
                           status |-> IF verdict = "invalid" THEN pstatus ELSE 0,
                           issued |-> TRUE,
                           istatus |-> IF ierr = None THEN istatus ELSE 0,
                           outcome |-> issue,
                           newKey |-> ibody.value,
                           ret |-> IF issue = "ok" THEN ibody.value ELSE NoKey]
    /\ UNCHANGED <<jwt, runs, chatVars, streamVars, bootVars, catVars>>

GetKey ==
    /\ pc = "getkey"
    /\ \E perr \in TransportErrors \cup {None}, pstatus \in Statuses :
        /\ perr # None => pstatus = 200
        \* a request that is not sent has no response to choose
        /\ LoadCachedKey(cacheFile) = NoKey => (perr = None /\ pstatus = 200)
        /\ \E ierr \in TransportErrors \cup {None}, istatus \in Statuses,
              ibody \in ValueBodies(Keys) :
            /\ ierr # None => (istatus = 200 /\ ibody.kind = "notjson")
            /\ ProbeVerdict(LoadCachedKey(cacheFile), perr, pstatus) = "valid" =>
                  (ierr = None /\ istatus = 200 /\ ibody.kind = "notjson")
            /\ GetOrCreateApiKey(perr, pstatus, ierr, istatus, ibody)

\* The program is run again; only the cache file outlives a run.
NewRun ==
    /\ pc \in {"ready", "failed", "crashed"}
    /\ runs < MaxRuns
    /\ runs' = runs + 1
    /\ pc' = "login"
    /\ sent' = <<>>
    /\ jwt' = NoKey
    /\ apiKey' = NoKey
    /\ boot' = NoBoot
    /\ UNCHANGED <<cacheFile, keyCall, chatVars, streamVars, prog, catVars>>

ChatIdle == /\ messages = <<>> /\ systemPrompt = None /\ lastCall = NoCall
            /\ tally = Tally0

InitKey ==
    /\ cacheFile \in FileContents
    /\ pc = "login"
    /\ jwt = NoKey
    /\ apiKey = NoKey
    /\ keyCall = NoKeyCall
    /\ runs = 1
    /\ sent = <<>>
    /\ ChatIdle
    /\ StreamIdle
    /\ prog = "streaming" /\ boot = NoBoot
    /\ CatIdle

NextKey == Login \/ GetKey \/ NewRun

SpecKey == InitKey /\ [][NextKey]_vars

\* ------------------------------------------------------------------ stream consumer
\* The lines response.iter_lines() delivers, by what the loop body does
\* with them:
\*   "blank"    b""                                   (falsy: skipped)
\*   "other"    a line that does not start with "data: "
\*   "done"     data: [DONE]
\*   "badjson"  data: <text json.loads rejects>
\*   "nochoices" / "empty"   data: {} / data: {"choices":[{"delta":{"content":""}}]}
\*   "null"     data: null     ("choices" in None raises TypeError)
\*   "nulldelta" data: {"choices":[{"delta":null}]}
\*              (delta is None: delta.get raises AttributeError)
\*   "f1","f2"  data: {"choices":[{"delta":{"content":"f1"}}]}
Fragments == {"f1", "f2"}
LineKinds == {"blank", "other", "done", "badjson", "nochoices", "empty", "null",
              "nulldelta"}
             \cup Fragments

\* How the transport ends once its lines are delivered: the body ends
\* ("eof"), or iter_lines raises.
StreamEnds == {"eof", "ChunkedEncodingError", "ConnectionError"}

Inputs == {[lines |-> ls, end |-> e] :
              ls \in SeqsUpTo(LineKinds, MaxLines), e \in StreamEnds}

\* One resumption of the generator body (lines 113-132) from line p: the
\* loop runs until it yields, returns, or an exception leaves it.
\* What the loop body (lines 115-129) does with one line: "skip" goes on
\* to the next line, "done" returns, "yield" yields the line's fragment,
\* and "TypeError" is the exception that leaves the loop.
LineEffectNoSentinel(l) ==
    IF l \in Fragments THEN "yield"
    ELSE IF l = "null" THEN "TypeError"
    ELSE IF l = "nulldelta" THEN "AttributeError"
    ELSE "skip"
LineEffectStrict(l) ==
    IF l = "done" THEN "done"
    ELSE IF l \in Fragments THEN "yield"
    ELSE IF l \in {"null", "badjson"} THEN "TypeError"
    ELSE IF l = "nulldelta" THEN "AttributeError"
    ELSE "skip"
LineEffect(l) ==
    IF l = "done" THEN "done"
    ELSE IF l \in Fragments THEN "yield"
    ELSE IF l = "null" THEN "TypeError"
    ELSE IF l = "nulldelta" THEN "AttributeError"
    ELSE "skip"

RECURSIVE Scan(_, _)
Scan(inp, p) ==
    IF p = Len(inp.lines) THEN [pos |-> p, ev |-> inp.end, frag |-> None]
    ELSE LET l == inp.lines[p + 1]
             e == LineEffect(l)
         IN
         IF e = "skip" THEN Scan(inp, p + 1)
         ELSE [pos |-> p + 1, ev |-> e, frag |-> IF e = "yield" THEN l ELSE None]

\* for chunk in stream_chat_completion(...): the generator run from line p
\* until it ends, with the fragments it yields collected after acc.
RECURSIVE Consume(_, _, _)
Consume(inp, p, acc) ==
    LET r == Scan(inp, p) IN
    IF r.ev = "yield" THEN Consume(inp, r.pos, Append(acc, r.frag))
    ELSE [ev |-> r.ev, frags |-> acc]

\* The state of the generator after the event that ends a resumption.
\* "done", the end of the body and the caught ChunkedEncodingError end the
\* generator normally; any other exception propagates to the caller.
GenAfterStrict(ev) ==
    IF ev = "yield" THEN "suspended"
    ELSE IF ev = "done" THEN "returned"
    ELSE "raised"
GenAfter(ev) ==
    IF ev = "yield" THEN "suspended"
    ELSE IF ev \in {"done", "eof", "ChunkedEncodingError"} THEN "returned"
    ELSE "raised"

\* The connection when the generator is left without the body having been
\* read to its end: stream_chat_completion holds the response in a local
\* variable and never calls response.close(), so the connection stays open
\* until the runtime happens to finalise the response object.
Unreleased == {"open", "closed"}

\* The connection after the event that ends a resumption. urllib3 releases
\* the connection when the body is read to its end and closes it when a
\* read fails; nothing else in the function touches it.
ConnAfter(ev) ==
    IF ev \in {"eof", "ChunkedEncodingError", "ConnectionError"} THEN {"closed"}
    ELSE IF ev = "yield" THEN {"open"}
    ELSE Unreleased

\* The first next(): the body starts, sends the request (lines 97-111) and
\* runs to its first yield or its end.
StreamStart ==
    \E err \in TransportErrors \cup {None}, status \in Statuses :
        /\ gen = "created"
        /\ err # None => status = 200
        /\ sent' = Append(sent, CompletionRequest(apiKey, messages, TRUE))
        /\ resp' = IF err # None THEN 0 ELSE status
        /\ IF err # None
           THEN /\ gen' = "raised" /\ why' = err /\ conn' = "none"
                /\ UNCHANGED <<pos, yielded>>
           ELSE IF RaiseForStatus(status)
           THEN /\ gen' = "raised" /\ why' = "HTTPError"
                /\ conn' \in Unreleased
                /\ UNCHANGED <<pos, yielded>>
           ELSE LET r == Scan(input, 0) IN
                /\ gen' = GenAfter(r.ev)
                /\ why' = r.ev
                /\ conn' \in ConnAfter(r.ev)
                /\ pos' = r.pos
                /\ yielded' = IF r.ev = "yield" THEN Append(yielded, r.frag)
                              ELSE yielded
        /\ UNCHANGED <<input, chatVars, keyVars, bootVars, catVars>>

\* A later next(): the body resumes after the yield.
StreamResume ==
    /\ gen = "suspended"
    /\ LET r == Scan(input, pos) IN
        /\ gen' = GenAfter(r.ev)
        /\ why' = r.ev
        /\ conn' \in ConnAfter(r.ev)
        /\ pos' = r.pos
        /\ yielded' = IF r.ev = "yield" THEN Append(yielded, r.frag) ELSE yielded
    /\ UNCHANGED <<input, resp, sent, chatVars, keyVars, bootVars, catVars>>

\* The caller stops iterating (break, an exception in the loop body, the
\* generator dropped): GeneratorExit is raised at the yield; the function
\* has no finally clause, so nothing runs.
StreamAbandon ==
    /\ gen = "suspended"
    /\ gen' = "closed"
    /\ why' = "abandoned"
    /\ conn' \in Unreleased
    /\ UNCHANGED <<input, pos, yielded, resp, sent, chatVars, keyVars, bootVars,
                   catVars>>

InitStream ==
    /\ input \in Inputs
    /\ gen = "created"
    /\ why = None
    /\ conn = "none"
    /\ pos = 0
    /\ yielded = <<>>
    /\ resp = 0
    /\ sent = <<>>
    /\ messages = <<Msg("system", "S"), Msg("user", "m1")>>
    /\ systemPrompt = None /\ lastCall = NoCall /\ tally = Tally0
    /\ cacheFile = NoFile /\ pc = "stream" /\ jwt = <<"j">> /\ apiKey = <<"a">>
    /\ keyCall = NoKeyCall /\ runs = 1
    /\ prog = "streaming" /\ boot = NoBoot
    /\ CatIdle

NextStream == StreamStart \/ StreamResume \/ StreamAbandon

SpecStream == InitStream /\ [][NextStream]_vars

\* ------------------------------------------------------------------ the mains
\* multi_turn_chat.main, simple_chat.main and streaming_chat.main share
\* their first step (get_auth_token, modelled by Login) and differ in how
\* they get the key and in the completion they send.
Programs == {"multi_turn", "simple", "streaming"}

\* The session.chat() calls of multi_turn_chat.main.
MainTurns == 3

\* The stream inputs tried after a whole bootstrap.
BootInputs == {[lines |-> ls, end |-> e] :
                  ls \in SeqsUpTo(LineKinds, 1), e \in StreamEnds}

\* What .api_key_cache holds when streaming_chat.main starts.
BootFiles == {NoFile} \cup {File(t) : t \in SeqsUpTo(Chars, 1)}

\* The completion bodies tried after a whole bootstrap.
BootBodies == {b \in ChatBodies : Len(b.choices) <= 1}

\* The messages simple_chat.main and streaming_chat.main send.
MainMessages == <<Msg("system", "S"), Msg("user", "m1")>>

\* multi_turn_chat.get_or_create_api_key(jwt_token) and its except clause:
\* one POST to /api/v1/api-keys.
MtGetKey ==
    /\ prog = "multi_turn" /\ pc = "getkey"
    /\ \E err \in TransportErrors \cup {None}, status \in Statuses,
          body \in ValueBodies(Keys) :
        LET outcome == FieldOutcome(err, status, body) IN
        /\ err # None => (status = 200 /\ body.kind = "notjson")
        /\ sent' = Append(sent, Request("issue", "Bearer", jwt))
        /\ apiKey' = IF outcome = "ok" THEN body.value ELSE NoKey
        /\ pc' = IF outcome = "ok" THEN "ready" ELSE AfterException(outcome)
        /\ boot' = [boot EXCEPT !.key = outcome,
                                !.keyStatus = IF err = None THEN status ELSE 0]
        /\ UNCHANGED <<cacheFile, jwt, keyCall, runs, prog, chatVars,
                       streamVars, catVars>>

\* multi_turn_chat.main, step 3: ChatSession(api_key, model, system_prompt).
MtCreateSession ==
    /\ prog = "multi_turn" /\ pc = "ready"
    /\ systemPrompt' = "S"
    /\ messages' = InitMessages("S")
    /\ pc' = "turns"
    /\ UNCHANGED <<lastCall, tally, sent, cacheFile, jwt, apiKey, keyCall, runs,
                   bootVars, streamVars, catVars>>

\* multi_turn_chat.main, step 4: the next session.chat() of the three, and
\* the except clause around them.
MtTurn ==
    /\ prog = "multi_turn" /\ pc = "turns"
    /\ \E err \in TransportErrors \cup {None},
          status \in Statuses, body \in BootBodies :
        LET outcome == ChatOutcome(err, status, body)
            m == "m1"
        IN
        /\ err # None => (status = 200 /\ body.kind = "notjson")
        /\ ChatEffect(apiKey, m, err, status, body)
        /\ pc' = IF outcome # "ok" THEN AfterException(outcome)
                 ELSE IF tally.calls + 1 = MainTurns THEN "done" ELSE "turns"
        /\ UNCHANGED <<cacheFile, jwt, apiKey, keyCall, runs, bootVars>>

\* response.raise_for_status(); response.json().get("api_keys", [])
ListOutcome(err, status, isJson) ==
    IF err # None THEN err
    ELSE IF RaiseForStatus(status) THEN "HTTPError"
    ELSE IF ~isJson THEN "JSONDecodeError"
    ELSE "ok"

\* simple_chat.get_or_create_api_key(jwt_token) and its except clause: a
\* GET that lists the keys, whose result is not used, then the POST that
\* creates one.
SimpleGetKey ==
    /\ prog = "simple" /\ pc = "getkey"
    /\ \E lerr \in TransportErrors \cup {None}, lstatus \in Statuses,
          isJson \in BOOLEAN,
          err \in TransportErrors \cup {None}, status \in Statuses,
          body \in ValueBodies(Keys) :
        LET listed == ListOutcome(lerr, lstatus, isJson)
            outcome == IF listed # "ok" THEN listed
                       ELSE FieldOutcome(err, status, body)
        IN
        /\ lerr # None => (lstatus = 200 /\ ~isJson)
        /\ err # None => (status = 200 /\ body.kind = "notjson")
        /\ listed # "ok" => (err = None /\ status = 200 /\ body.kind = "notjson")
        /\ sent' = sent \o <<Request("list", "Bearer", jwt)>>
                        \o (IF listed = "ok"
                            THEN <<Request("issue", "Bearer", jwt)>> ELSE <<>>)
        /\ apiKey' = IF outcome = "ok" THEN body.value ELSE NoKey
        /\ pc' = IF outcome = "ok" THEN "ready" ELSE AfterException(outcome)
        /\ boot' = [boot EXCEPT !.key = outcome,
                                !.keyStatus = IF listed # "ok" \/ err # None
                                              THEN 0 ELSE status]
        /\ UNCHANGED <<cacheFile, jwt, keyCall, runs, prog, chatVars,
                       streamVars, catVars>>

\* simple_chat.main, step 3: chat_completion(api_key, messages, model) and
\* the except clause around it.
SimpleComplete ==
    /\ prog = "simple" /\ pc = "ready"
    /\ \E err \in TransportErrors \cup {None}, status \in Statuses,
          isJson \in BOOLEAN :
        LET outcome == ListOutcome(err, status, isJson) IN
        /\ err # None => (status = 200 /\ ~isJson)
        /\ sent' = Append(sent, CompletionRequest(apiKey, MainMessages, FALSE))
        /\ pc' = IF outcome = "ok" THEN "done" ELSE AfterException(outcome)
        /\ UNCHANGED <<cacheFile, jwt, apiKey, keyCall, runs, bootVars, chatVars,
                       streamVars, catVars>>

\* streaming_chat.main, step 2.
StreamingGetKey == prog = "streaming" /\ GetKey

\* streaming_chat.main, step 3: stream_chat_completion(api_key, messages)
\* creates the generator; nothing of its body has run yet.
StreamingCall ==
    /\ prog = "streaming" /\ pc = "ready" /\ gen = "idle"
    /\ gen' = "created"
    /\ input' \in BootInputs
    /\ messages' = MainMessages
    /\ pc' = "stream"
    /\ UNCHANGED <<systemPrompt, lastCall, tally, sent, cacheFile, jwt, apiKey,
                   keyCall, runs, bootVars, why, conn, pos, yielded, resp, catVars>>

\* streaming_chat.main, step 4: the for loop over the generator.
StreamingLoop == prog = "streaming" /\ pc = "stream" /\ (StreamStart \/ StreamResume)

InitBoot ==
    /\ prog \in Programs
    /\ cacheFile \in (IF prog = "streaming" THEN BootFiles ELSE {NoFile})
    /\ pc = "login"
    /\ jwt = NoKey
    /\ apiKey = NoKey
    /\ keyCall = NoKeyCall
    /\ runs = 1
    /\ boot = NoBoot
    /\ sent = <<>>
    /\ ChatIdle
    /\ StreamIdle
    /\ CatIdle

NextBoot ==
    \/ Login
    \/ MtGetKey \/ MtCreateSession \/ MtTurn
    \/ SimpleGetKey \/ SimpleComplete
    \/ StreamingGetKey \/ StreamingCall \/ StreamingLoop

SpecBoot == InitBoot /\ [][NextBoot]_vars

\* ------------------------------------------------------------------ provider catalog
\* chat_with_apikey.py: the provider descriptors GET /api/v1/models/providers
\* returns, as far as the program reads them: p["name"],
\* p.get("is_active"), p.get("models").
ProviderNames == {"p1", "p2"}
ModelNames == {"m1", "m2"}
ModelLists == {<<>>, <<"m1">>, <<"m2">>, <<"m1", "m2">>, <<"m2", "m1">>}
Descriptors == [name : ProviderNames, active : BOOLEAN, models : ModelLists]
ProviderLists == SeqsUpTo(Descriptors, MaxProviders)

\* API_KEY, the key the program is configured with.
ConfiguredKey == <<"a">>

\* Bodies of the provider-list response: not JSON, a JSON object without
\* "data", or one whose "data" is a list of descriptors.
ProviderBodies == {[kind |-> "notjson", data |-> <<>>],
                   [kind |-> "nodata", data |-> <<>>]}
                  \cup {[kind |-> "json", data |-> ps] : ps \in ProviderLists}

\* response.raise_for_status(); data = response.json()
FetchOutcome(err, status, body) ==
    IF err # None THEN err
    ELSE IF RaiseForStatus(status) THEN "HTTPError"
    ELSE IF body.kind = "notjson" THEN "JSONDecodeError"
    ELSE "ok"

\* What leaves fetch_providers as an exception: its except clause catches
\* every RequestException, prints it and returns [].
FetchRaised(outcome) ==
    IF outcome = "ok" \/ outcome \in RequestExceptions THEN None ELSE outcome

\* fetch_providers(), and main's "if not providers: ... return".
FetchProviders ==
    /\ prog = "apikey" /\ pc = "fetch"
    /\ \E err \in TransportErrors \cup {None}, status \in Statuses,
          body \in ProviderBodies :
        LET outcome == FetchOutcome(err, status, body)
            raised == FetchRaised(outcome)
            ret == IF outcome = "ok" THEN body.data ELSE <<>>
        IN
        /\ err # None => (status = 200 /\ body.kind = "notjson")
        /\ sent' = Append(sent, Request("providers", "X-API-Key", ConfiguredKey))
        /\ providers' = IF raised = None THEN ret ELSE providers
        /\ catCall' = [NoCatCall EXCEPT !.op = "fetch", !.outcome = outcome,
                                        !.raised = raised,
                                        !.status = IF err = None THEN status ELSE 0]
        /\ pc' = IF raised # None THEN "crashed"
                 ELSE IF ret = <<>> THEN "stopped" ELSE "select"
        /\ UNCHANGED <<cacheFile, jwt, apiKey, keyCall, runs, bootVars, chatVars,
                       streamVars>>

\* active = [p for p in providers if p.get("is_active") and p.get("models")]
\* and the choice of active[0] and its first model; found is FALSE when
\* active is empty.
Qualifies(p) == p.active /\ p.models # <<>>
SelectDefaultLast(ps) ==
    LET active == SelectSeq(ps, Qualifies) IN
    IF active = <<>> THEN [found |-> FALSE, provider |-> None, model |-> None]
    ELSE [found |-> TRUE, provider |-> active[Len(active)].name,
          model |-> active[Len(active)].models[1]]
SelectDefault(ps) ==
    LET active == SelectSeq(ps, Qualifies) IN
    IF active = <<>> THEN [found |-> FALSE, provider |-> None, model |-> None]
    ELSE [found |-> TRUE, provider |-> active[1].name,
          model |-> active[1].models[1]]

\* find_model_provider(providers, model_name)
RECURSIVE FindModelProviderLast(_, _)
FindModelProviderLast(ps, name) ==
    IF ps = <<>> THEN None
    ELSE IF \E i \in 1..Len(ps[Len(ps)].models) : ps[Len(ps)].models[i] = name
    THEN ps[Len(ps)].name
    ELSE FindModelProviderLast(SubSeq(ps, 1, Len(ps) - 1), name)
RECURSIVE FindModelProvider(_, _)
FindModelProvider(ps, name) ==
    IF ps = <<>> THEN None
    ELSE IF \E i \in 1..Len(ps[1].models) : ps[1].models[i] = name
    THEN ps[1].name
    ELSE FindModelProvider(Tail(ps), name)

\* main, no --model and no --provider: the default branch.
MainDefault ==
    LET d == SelectDefault(providers) IN
    /\ prog = "apikey" /\ pc = "select"
    /\ catCall' = [NoCatCall EXCEPT !.op = "default",
                                    !.outcome = IF d.found THEN "ok"
                                                ELSE "NoActiveProvider",
                                    !.provider = d.provider, !.model = d.model]
    /\ pc' = IF d.found THEN "chat" ELSE "stopped"
    /\ UNCHANGED <<providers, sent, keyVarsButPc, bootVars, chatVars, streamVars>>

\* A call of find_model_provider on the fetched list; main makes it for
\* --model and then sends the request whatever the answer.
FindCall ==
    \E name \in ModelNames \cup {"mx"}, last \in BOOLEAN :
        /\ prog = "apikey" /\ pc = "select"
        /\ catCall' = [NoCatCall EXCEPT
                          !.op = "find", !.outcome = "ok", !.arg = name,
                          !.provider = FindModelProvider(providers, name),
                          !.model = name]
        /\ pc' = IF last THEN "chat" ELSE "select"
        /\ UNCHANGED <<providers, sent, keyVarsButPc, bootVars, chatVars, streamVars>>

\* main: chat([{"role": "user", ...}], model=model) and the except clauses
\* around it, which catch every exception.
MainChat ==
    /\ prog = "apikey" /\ pc = "chat"
    /\ \E err \in TransportErrors \cup {None}, status \in Statuses,
          isJson \in BOOLEAN :
        LET outcome == ListOutcome(err, status, isJson) IN
        /\ err # None => (status = 200 /\ ~isJson)
        /\ sent' = Append(sent, CompletionRequest(ConfiguredKey,
                                                  <<Msg("user", "m1")>>, FALSE))
        /\ pc' = IF outcome = "ok" THEN "done" ELSE "failed"
        /\ UNCHANGED <<cacheFile, jwt, apiKey, keyCall, runs, bootVars, chatVars,
                       streamVars, catVars>>

InitCatalog ==
    /\ prog = "apikey" /\ pc = "fetch"
    /\ boot = NoBoot
    /\ CatIdle
    /\ cacheFile = NoFile /\ jwt = NoKey /\ apiKey = NoKey
    /\ keyCall = NoKeyCall /\ runs = 0
    /\ sent = <<>>
    /\ ChatIdle
    /\ StreamIdle

NextCatalog == FetchProviders \/ MainDefault \/ FindCall \/ MainChat

SpecCatalog == InitCatalog /\ [][NextCatalog]_vars

\* ================================================================== claims
\* ------------------------------------------------------------------ SpecChat

SysLen == IF Truthy(systemPrompt) THEN 1 ELSE 0

\* C1: after n chat() calls that all succeeded, with no clear_history() in
\* between, the history holds 2*n entries, plus 1 if a (non-empty) system
\* prompt was given at construction.
C1_LengthAfterSuccesses ==
    (~tally.cleared /\ tally.fail = 0) => Len(messages) = 2 * tally.ok + SysLen

C1_Witness ==
    /\ ~tally.cleared /\ tally.fail = 0 /\ tally.ok = MaxCalls
    /\ systemPrompt = "S"

\* Shared by the C2 statements: the history is the pre-call history with
\* exactly the user message just sent appended.
OnlyUserAppended ==
    messages = Append(lastCall.pre, Msg("user", lastCall.arg))

\* After clear_history() and k failed chat() calls (no successful one), the
\* history is the preserved system message(s) followed by k user messages.
FailedCallsAfterClear ==
    (tally.cleared /\ tally.ok = 0) =>
        /\ Len(messages) = SysLen + tally.fail
        /\ \A i \in 1..Len(messages) :
              messages[i].role = (IF i <= SysLen THEN "system" ELSE "user")

C3_UserThenAssistant ==
    (lastCall.op = "chat" /\ lastCall.outcome = "ok") =>
        /\ lastCall.ret = lastCall.body.choices[1]
        /\ messages = lastCall.pre \o <<Msg("user", lastCall.arg),
                                        Msg("assistant", lastCall.ret)>>

C3_Witness ==
    /\ lastCall.op = "chat" /\ lastCall.outcome = "ok"
    /\ Len(lastCall.body.choices) = 2
    /\ lastCall.body.choices[1] # lastCall.body.choices[2]
    /\ Len(lastCall.pre) >= 2

\* C4: a 2xx completion response with zero entries in choices makes chat()
\* fail with MalformedResponseError, not an index fault, and no assistant
\* entry is appended.
C4_EmptyChoicesTypedError ==
    (/\ lastCall.op = "chat" /\ Is2xx(lastCall.status)
     /\ lastCall.body.kind = "json" /\ Len(lastCall.body.choices) = 0)
        => (lastCall.outcome = "MalformedResponseError" /\ OnlyUserAppended)

\* C5: clear_history(), after any sequence of successful and failed chat()
\* calls, leaves exactly the system message appended at construction (the
\* empty history when there was none) and issues no network request.
C5_ClearKeepsSystemOnly ==
    [][(lastCall'.op = "clear" /\ tally'.calls # tally.calls) =>
          /\ messages' = (IF systemPrompt # None /\ systemPrompt # ""
                          THEN <<[role |-> "system", content |-> systemPrompt]>>
                          ELSE <<>>)
          /\ sent' = sent]_vars

C5_Witness ==
    /\ lastCall.op = "clear" /\ systemPrompt = "S"
    /\ Len(lastCall.pre) = 4
    /\ lastCall.pre[3].role = "assistant" /\ lastCall.pre[4].role = "user"
    /\ messages = <<Msg("system", "S")>>

\* ------------------------------------------------------------------ SpecKey

\* The latest get_or_create_api_key call is the one of the current run.
KeyCallDone == keyCall.run = runs
IssueRequests == {i \in 1..Len(sent) : sent[i].op = "issue"}
LoginRequests == {i \in 1..Len(sent) : sent[i].op = "login"}

\* C7: when the probe of the cached key raises a transport-level failure,
\* the key counts as valid: the cached key is returned and no new key is
\* issued.
C7_TransportFailureKeepsKey ==
    (KeyCallDone /\ keyCall.probe \in TransportErrors) =>
        /\ IssueRequests = {}
        /\ pc = "ready" /\ apiKey = keyCall.cached

\* C8: when the probe of a non-empty cached key gets an HTTP response, the
\* key is invalid iff the status is 401 or 403: on any other status the
\* cached key is returned unchanged and no key is issued; on 401/403 a
\* key-issuance request is made.
C8_InvalidIff401Or403 ==
    (KeyCallDone /\ keyCall.probe = "response") =>
        IF keyCall.status \in {401, 403}
        THEN IssueRequests # {}
        ELSE /\ IssueRequests = {}
             /\ pc = "ready" /\ apiKey = keyCall.cached
             /\ cacheFile = keyCall.file

C8_Witness ==
    /\ KeyCallDone /\ keyCall.probe = "response" /\ keyCall.status = 404
    /\ pc = "ready" /\ apiKey = <<"a">> /\ cacheFile = File(<<"a", " ">>)

C10_IssuedKeyIsPersisted ==
    (/\ KeyCallDone
     /\ \/ ~keyCall.file.exists
        \/ keyCall.cached = NoKey
        \/ (keyCall.probe = "response" /\ keyCall.status \in {401, 403}))
    =>  /\ IssueRequests # {}
        /\ sent[Len(sent)].auth = "Bearer" /\ sent[Len(sent)].cred = jwt
        /\ pc = "ready" =>
              /\ apiKey # NoKey
              /\ apiKey = keyCall.newKey
              /\ LoadCachedKey(cacheFile) = apiKey

C10_Witness ==
    /\ KeyCallDone /\ keyCall.probe = "response" /\ keyCall.status = 401
    /\ pc = "ready" /\ keyCall.cached = <<"a">> /\ apiKey = <<"b">>
    /\ runs = 2

\* ------------------------------------------------------------------ SpecStream

\* C6: the stream consumer closes the HTTP response on every exit path
\* (sentinel read, transport ended or failed, iteration abandoned): in no
\* terminal state of the consumer is the connection still open.
C6_ConnectionClosedOnExit ==
    (/\ gen \in {"returned", "raised", "closed"}
     /\ why \in {"done", "eof", "ChunkedEncodingError", "ConnectionError",
                 "abandoned"})
        => conn # "open"

\* ------------------------------------------------------------------ SpecBoot

CompletionRequests == {i \in 1..Len(sent) : sent[i].op = "completion"}

\* C11, as stated: a login response with a non-2xx status fails the
\* bootstrap, and neither a key-issuance nor a completion request follows.
C11_Non2xxLoginFails ==
    (prog = "multi_turn" /\ boot.login # None
     /\ boot.loginStatus # 0 /\ ~Is2xx(boot.loginStatus))
        => /\ boot.login # "ok"
           /\ IssueRequests = {}
           /\ CompletionRequests = {}

\* The order of the bootstrap of multi_turn_chat.main and its failures.
BootstrapOrder ==
    prog = "multi_turn" =>
        /\ \A i \in IssueRequests :
              /\ boot.login = "ok" /\ jwt \in Tokens
              /\ \E l \in LoginRequests : l < i
        /\ \A c \in CompletionRequests :
              /\ boot.key = "ok" /\ apiKey \in Keys
              /\ \E i \in IssueRequests : i < c
        /\ RaiseForStatus(boot.loginStatus) =>
              /\ pc = "failed" /\ boot.login = "HTTPError"
              /\ IssueRequests = {} /\ CompletionRequests = {}
        /\ RaiseForStatus(boot.keyStatus) =>
              /\ pc = "failed" /\ boot.key = "HTTPError"
              /\ CompletionRequests = {}

\* C11: the bootstrap only moves forward: a key-issuance request is sent
\* only after login succeeded and a completion request only after a key was
\* obtained; a 4xx or 5xx login response ends in the failed state with no
\* key-issuance and no completion request, a 4xx or 5xx key-issuance
\* response ends in the failed state with no completion request; and the
\* failed state is terminal: nothing is sent and nothing changes after it.
C11_BootstrapOrderAndFailure ==
    /\ []BootstrapOrder
    /\ [][pc = "failed" => (pc' = "failed" /\ sent' = sent)]_vars

C11_Witness ==
    /\ prog = "multi_turn" /\ boot.login = "ok"
    /\ boot.keyStatus = 500 /\ pc = "failed"
    /\ Len(sent) = 2

\* C12: the session token is never sent on a chat-completion request: every
\* completion request (buffered, streaming, or the probe of a cached key)
\* carries an API key in the X-API-Key header, and the session token
\* appears only as the bearer token of a request to the API-key endpoint.
C12_TokenNeverOnCompletion ==
    \A i \in 1..Len(sent) :
        /\ sent[i].op = "completion" =>
              /\ sent[i].auth = "X-API-Key"
              /\ sent[i].cred \notin Tokens
              /\ sent[i].cred \in {apiKey, keyCall.cached}
        /\ sent[i].cred \in Tokens =>
              /\ sent[i].auth = "Bearer"
              /\ sent[i].op \in {"issue", "list"}

C12_Witness ==
    /\ prog = "streaming" /\ gen = "suspended"
    /\ \E i, j, k \in 1..Len(sent) :
          /\ i < j /\ j < k
          /\ sent[i].op = "completion" /\ ~sent[i].stream
          /\ sent[j].op = "issue"
          /\ sent[k].op = "completion" /\ sent[k].stream

\* The generator has ended inside its loop over the lines (not by a
\* failed request, not by being abandoned).
StreamEnded ==
    /\ gen \in {"returned", "raised"}
    /\ conn # "none"
    /\ why # "HTTPError"

\* The index of the first data: [DONE] line, or 0 if there is none.
FirstDone(lines) ==
    IF \E i \in 1..Len(lines) : lines[i] = "done"
    THEN CHOOSE i \in 1..Len(lines) :
            lines[i] = "done" /\ \A j \in 1..(i - 1) : lines[j] # "done"
    ELSE 0

IsFragment(l) == l \in Fragments
NotMalformed(l) == l # "badjson"

\* The fragments of the frames that precede the first sentinel.
FragmentsBeforeDone(lines) ==
    LET d == FirstDone(lines) IN
    SelectSeq(IF d = 0 THEN lines ELSE SubSeq(lines, 1, d - 1), IsFragment)

\* C13: the consumer never reads past the first data: [DONE] line: when it
\* reads that line it ends normally, without an error, and what it has
\* yielded comes from the frames before that line only.
C13_EndsAtFirstSentinel ==
    LET d == FirstDone(input.lines) IN
    /\ d # 0 => pos <= d
    /\ (d # 0 /\ pos = d) =>
          /\ gen = "returned" /\ why = "done"
          /\ yielded = SelectSeq(SubSeq(input.lines, 1, d - 1), IsFragment)
    /\ why = "done" => (d # 0 /\ pos = d)
    /\ \A i \in 1..Len(yielded) :
          \E j \in 1..Len(input.lines) :
              input.lines[j] = yielded[i] /\ (d # 0 => j < d)

C13_Witness ==
    /\ input.lines = <<"f1", "done", "f2">>
    /\ gen = "returned" /\ why = "done" /\ yielded = <<"f1">>

\* C14: a data frame whose payload is not JSON is skipped: the consumer
\* ends the same way and yields the same fragments as on the input with
\* every such frame removed, wherever and however many they are.
C14_MalformedFramesSkipped ==
    LET clean == [input EXCEPT !.lines = SelectSeq(input.lines, NotMalformed)]
        whole == Consume(clean, 0, <<>>)
    IN
    /\ StreamEnded => (why = whole.ev /\ yielded = whole.frags)
    /\ gen = "suspended" =>
          /\ Len(yielded) <= Len(whole.frags)
          /\ yielded = SubSeq(whole.frags, 1, Len(yielded))

C14_Witness ==
    /\ input.lines = <<"f1", "badjson", "f2">>
    /\ StreamEnded /\ gen = "returned" /\ yielded = <<"f1", "f2">>

\* C15: when the transport ends without a sentinel, by a clean close or by
\* a truncated body (ChunkedEncodingError) while a line is read, the
\* consumer ends normally and everything it yielded stays delivered: all
\* the fragments of the input, in order.
C15_TransportEndIsNormal ==
    (conn # "none" /\ why \in {"eof", "ChunkedEncodingError"}) =>
        /\ gen = "returned"
        /\ pos = Len(input.lines)
        /\ FirstDone(input.lines) = 0
        /\ yielded = SelectSeq(input.lines, IsFragment)

C15_Witness ==
    /\ input.lines = <<"f1", "f2">> /\ input.end = "ChunkedEncodingError"
    /\ gen = "returned" /\ why = "ChunkedEncodingError"
    /\ yielded = <<"f1", "f2">>

\* C16: when the consumer has ended, the fragments it yielded are exactly,
\* in input order, the non-empty contents of the frames that precede the
\* first sentinel.
C16_YieldsExactlyTheFragments ==
    StreamEnded => yielded = FragmentsBeforeDone(input.lines)

\* ------------------------------------------------------------------ SpecCatalog

\* C17: a transport or HTTP failure of the provider-list request reaches
\* the caller as an error, and the caller gets an empty provider list only
\* when the gateway answered successfully with zero providers.
C17_FetchFailurePropagates ==
    catCall.op = "fetch" =>
        /\ catCall.outcome # "ok" => catCall.raised # None
        /\ (catCall.raised = None /\ providers = <<>>) => catCall.outcome = "ok"

\* The index of the first descriptor that is active and has models, or 0.
FirstQualifying(ps) ==
    IF \E i \in 1..Len(ps) : ps[i].active /\ Len(ps[i].models) > 0
    THEN CHOOSE i \in 1..Len(ps) :
            /\ ps[i].active /\ Len(ps[i].models) > 0
            /\ \A j \in 1..(i - 1) : ~(ps[j].active /\ Len(ps[j].models) > 0)
    ELSE 0

\* C18: the default selection is the first descriptor in fetch order that
\* is active and has a non-empty model list, with that descriptor's first
\* model; when no descriptor qualifies the program stops with the
\* no-active-provider failure and sends no completion request.
C18_SelectDefaultFirstActive ==
    catCall.op = "default" =>
        LET i == FirstQualifying(providers) IN
        /\ i # 0 => /\ catCall.outcome = "ok"
                    /\ catCall.provider = providers[i].name
                    /\ catCall.model = Head(providers[i].models)
                    /\ pc \in {"chat", "done", "failed"}
        /\ i = 0 => /\ catCall.outcome = "NoActiveProvider"
                    /\ pc = "stopped"
                    /\ CompletionRequests = {}

C18_Witness ==
    /\ catCall.op = "default" /\ pc = "chat"
    /\ Len(providers) = 2
    /\ ~providers[1].active /\ providers[1].models = <<"m1">>
    /\ providers[2].active /\ providers[2].models = <<"m2", "m1">>
    /\ catCall.provider = providers[2].name /\ catCall.model = "m2"
    /\ providers[1].name # providers[2].name

Lists(p, name) == \E k \in 1..Len(p.models) : p.models[k] = name

\* The answer find_model_provider has to give for name on the list ps.
FirstListing(ps, name) ==
    IF \E i \in 1..Len(ps) : Lists(ps[i], name)
    THEN ps[CHOOSE i \in 1..Len(ps) :
               Lists(ps[i], name) /\ \A j \in 1..(i - 1) : ~Lists(ps[j], name)].name
    ELSE None

\* C19: find_model_provider answers with the first provider in fetch order
\* whose model list contains the name, however many later providers list
\* it too, and with nothing when none lists it; a call leaves the fetched
\* list as it was, and a repeated call with the same name gives the same
\* answer.
C19_ResolveFirstMatch ==
    /\ [](catCall.op = "find" =>
             catCall.provider = FirstListing(providers, catCall.arg))
    /\ [][catCall'.op = "find" =>
             /\ providers' = providers
             /\ (catCall.op = "find" /\ catCall'.arg = catCall.arg) =>
                   catCall'.provider = catCall.provider]_vars

C19_Witness ==
    /\ catCall.op = "find" /\ catCall.arg = "m1"
    /\ Len(providers) = 2
    /\ providers[1].name = "p2" /\ Lists(providers[1], "m1")
    /\ providers[2].name = "p1" /\ Lists(providers[2], "m1")
    /\ catCall.provider = "p2"

\* ------------------------------------------------------------------ SpecChat, history

IsPrefix(a, b) == Len(a) <= Len(b) /\ SubSeq(b, 1, Len(a)) = a

\* A system message only at the first index, and a user message right
\* before every assistant message.
HistoryShape ==
    \A i \in 1..Len(messages) :
        /\ messages[i].role = "system" => i = 1
        /\ messages[i].role = "assistant" =>
              (i > 1 /\ messages[i - 1].role = "user")

\* C20: the history is append-only between resets: every chat() call,
\* successful or failed, leaves the history it found as a prefix of the
\* history it leaves, only clear_history() removes entries, and in every
\* state a system message is only at the first index and every assistant
\* message comes right after a user message.
C20_AppendOnlyHistory ==
    /\ []HistoryShape
    /\ [][/\ (lastCall'.op = "chat" /\ tally'.calls # tally.calls) =>
                /\ IsPrefix(messages, messages')
                /\ Len(messages') > Len(messages)
          /\ ~IsPrefix(messages, messages') =>
                (lastCall'.op = "clear" /\ tally'.calls # tally.calls)]_vars

C20_Witness ==
    /\ tally.cleared /\ lastCall.op = "chat" /\ lastCall.outcome = "ok"
    /\ Len(messages) = 4
    /\ messages[1].role = "system" /\ messages[2].role = "user"
    /\ messages[3].role = "user" /\ messages[4].role = "assistant"
    /\ IsPrefix(lastCall.pre, messages)

\* ------------------------------------------------------------------ SpecChat, requests

\* C21: the messages of the completion request a chat() call sends are the
\* whole history at that moment: the history the call found, with the
\* message just sent as its last entry, and stream is false; so a user
\* turn left unanswered by an earlier failed chat() is in every later
\* request until clear_history() is called.
C21_RequestCarriesWholeHistory ==
    /\ lastCall.op = "chat" =>
          LET req == sent[Len(sent)] IN
          /\ req.op = "completion" /\ ~req.stream
          /\ req.messages = Append(lastCall.pre, Msg("user", lastCall.arg))
          /\ IsPrefix(req.messages, messages)
    /\ \A i \in 1..Len(sent) :
          /\ ~sent[i].stream
          /\ sent[i].messages # <<>>
          /\ sent[i].messages[Len(sent[i].messages)].role = "user"
          /\ \A j \in (i + 1)..Len(sent) :
                tally.cleared \/ IsPrefix(sent[i].messages, sent[j].messages)

C21_Witness ==
    /\ ~tally.cleared /\ tally.fail = 1 /\ tally.ok = 1
    /\ lastCall.op = "chat" /\ lastCall.outcome = "ok"
    /\ Len(sent) = 2
    /\ Len(sent[2].messages) = 2
    /\ sent[2].messages[1] = Msg("user", "m1")
    /\ sent[2].messages[2] = Msg("user", "m2")

\* ------------------------------------------------------------------ SpecBoot, retries

StreamedRequests == {i \in 1..Len(sent) : sent[i].op = "completion" /\ sent[i].stream}
BufferedRequests == {i \in 1..Len(sent) : sent[i].op = "completion" /\ ~sent[i].stream}

\* C22: nothing is retried: the login request and the key-issuance request
\* are each sent at most once, also when they fail; every chat() call has
\* sent exactly one completion request whatever its outcome, and a
\* streamed completion has sent exactly one once it was started.
C22_NoRetries ==
    /\ Cardinality(LoginRequests) <= 1
    /\ Cardinality(IssueRequests) <= 1
    /\ (boot.login \notin {None, "ok"}) => Len(sent) = 1
    /\ (boot.key \notin {None, "ok"}) => sent[Len(sent)].op \in {"issue", "list"}
    /\ (keyCall.issued /\ keyCall.outcome # "ok") => sent[Len(sent)].op = "issue"
    /\ prog = "multi_turn" =>
          Cardinality(BufferedRequests) = tally.ok + tally.fail
    /\ prog = "simple" => Cardinality(BufferedRequests) <= 1
    /\ prog = "streaming" =>
          /\ Cardinality(StreamedRequests) =
                (IF gen \in {"idle", "created"} THEN 0 ELSE 1)
          /\ Cardinality(BufferedRequests) <= 1

C22_Witness ==
    /\ prog = "multi_turn" /\ pc = "failed"
    /\ tally.ok = 2 /\ tally.fail = 1
    /\ lastCall.outcome = "ConnectionError"
    /\ Len(sent) = 5

\* ------------------------------------------------------------------ SpecKey, cache writes

\* The probe of the latest call rejected the cached key with 401 or 403.
KeyRejected == keyCall.probe = "response" /\ keyCall.status \in {401, 403}

WellShaped(l) == l \notin {"nochoices", "empty", "null", "nulldelta"}

\* C24: a data frame whose payload is JSON but not of the expected shape
\* yields nothing and does not abort the stream: the consumer ends the
\* same way and yields the same fragments as on the input with every such
\* frame removed.
C24_OddShapedFramesSkipped ==
    LET clean == [input EXCEPT !.lines = SelectSeq(input.lines, WellShaped)]
        whole == Consume(clean, 0, <<>>)
    IN  StreamEnded => (why = whole.ev /\ yielded = whole.frags)

\* ------------------------------------------------------------------ SpecStream, status check

====
